---- MODULE Spec2Model ----
(***************************************************************************)
(* Rough Casting Management System (src/loop.py): a Streamlit program      *)
(* over one SQLite file.  Every browser session runs the script in its own *)
(* thread with its own st.session_state; every script run opens its own    *)
(* connection (init_db).  The SQLite file is the only shared state.        *)
(*                                                                         *)
(* A script run is modelled statement by statement wherever it touches the *)
(* store: SELECT, UPDATE / INSERT (which open the implicit transaction of  *)
(* Python's sqlite3 module and take SQLite's single write lock) and        *)
(* commit.  Uncommitted writes live in tx_products / tx_logs, the view of  *)
(* the connection that holds the write lock; other connections read the    *)
(* committed tables products / transaction_logs.                           *)
(***************************************************************************)
EXTENDS Integers, Sequences, FiniteSets, TLC

VARIABLES
    products,          \* committed table products: batch_id -> row
    transaction_logs,  \* committed table transaction_logs, in log_id order
    users,             \* committed table users: username -> password_hash
    writer,            \* the session whose connection holds the write lock
    tx_products,       \* products as seen inside the open write transaction
    tx_logs,           \* transaction_logs as seen inside that transaction
    now,               \* the wall clock, in seconds
    logged_in,         \* st.session_state.logged_in, per session
    username,          \* st.session_state.username, per session
    page,              \* st.session_state.page, per session
    pc,                \* where the session's current script run stands
    loc,               \* the local variables of that script run
    outcome,           \* what the session's last script run put on screen
    initial_stock      \* history: batch_id -> the stock given at registration

vars == <<products, transaction_logs, users, writer, tx_products, tx_logs,
          now, logged_in, username, page, pc, loc, outcome, initial_stock>>

db == <<products, transaction_logs, users>>
clock == <<now, initial_stock>>
tx == <<writer, tx_products, tx_logs>>
session_state == <<logged_in, username, page>>

-----------------------------------------------------------------------------
(* Bounds of the model *)

MaxProducts == 2      \* rows of products
MaxLogs == 3          \* rows of transaction_logs
MaxTime == 1          \* seconds the clock may advance

Sessions == {"s1", "s2"}
NoSession == "none"
None == "None"        \* Python's None / SQL NULL

-----------------------------------------------------------------------------
(* Text.  A str is a sequence of one-character strings. *)

LowerCase == <<"a", "b", "c", "e", "g", "m", "r">>
UpperCase == <<"A", "B", "C", "E", "G", "M", "R">>

\* string.ascii_uppercase + string.digits
TokenAlphabet ==
    {"A", "B", "C", "D", "E", "F", "G", "H", "I", "J", "K", "L", "M", "N",
     "O", "P", "Q", "R", "S", "T", "U", "V", "W", "X", "Y", "Z",
     "0", "1", "2", "3", "4", "5", "6", "7", "8", "9"}
Digits == {"0", "1", "2", "3", "4", "5", "6", "7", "8", "9"}
UpperLetters == TokenAlphabet \ Digits

\* str.upper(), character by character
upper_char(c) ==
    IF \E i \in 1..Len(LowerCase) : LowerCase[i] = c
    THEN UpperCase[CHOOSE i \in 1..Len(LowerCase) : LowerCase[i] = c]
    ELSE c
upper(str) == [i \in 1..Len(str) |-> upper_char(str[i])]

\* the slice str[:n]
prefix(str, n) == SubSeq(str, 1, IF Len(str) < n THEN Len(str) ELSE n)

\* datetime.now().strftime('%y%m%d'): the clock stays within one day
strftime_ymd(t) == <<"2", "6", "1", "1", "0", "6">>

\* datetime.now().strftime("%Y-%m-%d %H:%M:%S"): fixed width, so that the
\* order of the texts is the order of the instants.  Only the seconds
\* field varies within the model's horizon; it is kept as its two digits.
strftime_ts(t) == <<(t \div 10) % 10, t % 10>>

\* the identifier built without .upper()
generate_batch_id_no_upper(company, product_name, t, token) ==
    prefix(company, 3) \o <<"-">> \o prefix(product_name, 3) \o <<"-">> \o
    strftime_ymd(t) \o <<"-">> \o token

\* The f-string of register_product_page that builds the identifier.
generate_batch_id(company, product_name, t, token) ==
    upper(prefix(company, 3)) \o <<"-">> \o
    upper(prefix(product_name, 3)) \o <<"-">> \o
    strftime_ymd(t) \o <<"-">> \o token

-----------------------------------------------------------------------------
(* Inputs the sessions may type, pick or upload *)

acme == <<"a", "c", "m", "e">>
gear == <<"g", "e", "a", "r">>
ab == <<"a", "b">>
empty == <<>>

\* string.ascii_uppercase + string.digits, k=4: what random.choices may draw
TokenA == <<"A", "1", "B", "2">>
TokenB == <<"Z", "Z", "9", "9">>
\* st.selectbox("Production Level", [...])
Levels == {"Raw", "Processing", "Finished", "Shipped"}
\* st.slider("Initial Stock %", 0, 100, 50)
SliderMin == 0
SliderMax == 100
\* st.number_input("Stock Change (+/-)", -100, 100, 0)
ChangeMax == 100
ChangeMin == 0 - ChangeMax
ChangeInputs == {change \in {0 - 50, 20} : ChangeMin <= change /\ change <= ChangeMax}

\* One filled-in product form together with the token the run draws
Form(company, product_name, level, deadline, stock_percent, token) ==
    [company |-> company, product_name |-> product_name, level |-> level,
     deadline |-> deadline, stock_percent |-> stock_percent, token |-> token]
RegistrationInputs ==
    {form \in {Form(acme, gear, "Raw", "2026-12-31", 50, TokenA),
               Form(ab, gear, "Shipped", "2026-12-31", 100, TokenB),
               Form(empty, gear, "Raw", "2026-12-31", 0, TokenA)} :
        /\ form.level \in Levels
        /\ SliderMin <= form.stock_percent /\ form.stock_percent <= SliderMax
        /\ Len(form.token) = 4 /\ \A i \in 1..4 : form.token[i] \in TokenAlphabet}

\* hashlib.sha256(password.encode()).hexdigest(): injective on the passwords used
sha256(password) == <<"sha256", password>>
\* the credentials typed: Spec follows the sessions of the default account
UserInputs == {"admin"}
PasswordInputs == {"admin123", "pw"}

Pages == {"login", "register_user", "home", "register_product", "scan",
          "reports", "my_transactions"}

-----------------------------------------------------------------------------
(* The QR payload: json.dumps({"batch_id": batch_id}) and json.loads *)

JsonHead == <<"{", "\"", "b", "a", "t", "c", "h", "_", "i", "d", "\"", ":", " ", "\"">>
JsonTail == <<"\"", "}">>

\* the text written between the quotes as it is
json_escape_none(str) == str

\* json.dumps escapes the quote and the backslash inside a string
RECURSIVE json_escape(_)
json_escape(str) ==
    IF str = <<>> THEN <<>>
    ELSE (IF Head(str) \in {"\"", "\\"} THEN <<"\\", Head(str)>> ELSE <<Head(str)>>)
         \o json_escape(Tail(str))

json_dumps_batch_id(batch_id) == JsonHead \o json_escape(batch_id) \o JsonTail

\* the body of a JSON string: no bare quote, every backslash followed by a
\* quote or a backslash
RECURSIVE json_string_body_ok(_)
json_string_body_ok(str) ==
    IF str = <<>> THEN TRUE
    ELSE IF Head(str) = "\"" THEN FALSE
    ELSE IF Head(str) = "\\"
         THEN Len(str) >= 2 /\ str[2] \in {"\"", "\\"}
              /\ json_string_body_ok(SubSeq(str, 3, Len(str)))
    ELSE json_string_body_ok(Tail(str))

RECURSIVE json_unescape(_)
json_unescape(str) ==
    IF str = <<>> THEN <<>>
    ELSE IF Head(str) = "\\"
         THEN <<str[2]>> \o json_unescape(SubSeq(str, 3, Len(str)))
    ELSE <<Head(str)>> \o json_unescape(Tail(str))

\* Payloads a scanned label may carry besides a well-formed one
OtherFieldText == <<"{", "\"", "o", "t", "h", "e", "r", "\"", ":", " ", "1", "}">>
NumberText == <<"5">>
GarbageText == <<"h", "i">>

\* json.loads, on the texts above: the value parsed, or the exception raised
json_loads(text) ==
    LET n == Len(text)
        h == Len(JsonHead)
        t == Len(JsonTail)
    IN  IF n >= h + t /\ SubSeq(text, 1, h) = JsonHead
           /\ SubSeq(text, n - t + 1, n) = JsonTail
           /\ json_string_body_ok(SubSeq(text, h + 1, n - t))
        THEN [raised |-> None, kind |-> "object", keys |-> {"batch_id"},
              batch_id |-> json_unescape(SubSeq(text, h + 1, n - t))]
        ELSE IF text = OtherFieldText
        THEN [raised |-> None, kind |-> "object", keys |-> {"other"},
              batch_id |-> <<>>]
        ELSE IF text = NumberText
        THEN [raised |-> None, kind |-> "int", keys |-> {}, batch_id |-> <<>>]
        ELSE [raised |-> "JSONDecodeError", kind |-> None, keys |-> {},
              batch_id |-> <<>>]

\* json.loads(data)["batch_id"] (line 279): the identifier, or the exception
payload_batch_id(data) ==
    LET v == json_loads(data)
    IN  IF v.raised # None THEN [raised |-> v.raised, batch_id |-> <<>>]
        ELSE IF v.kind # "object" THEN [raised |-> "TypeError", batch_id |-> <<>>]
        ELSE IF "batch_id" \notin v.keys THEN [raised |-> "KeyError", batch_id |-> <<>>]
        ELSE [raised |-> None, batch_id |-> v.batch_id]

\* qrcode.make(text): the image of a code carrying the text
qrcode_make(text) == [kind |-> "qr", text |-> text]
\* an upload that shows no code at all
Photo == [kind |-> "photo", text |-> <<>>]
\* detector.detectAndDecode(img): the text of the code, "" when the image
\* holds no readable code
detectAndDecode(image) == IF image.kind = "qr" THEN image.text ELSE <<>>

-----------------------------------------------------------------------------
(* The store *)

\* SELECT * FROM products WHERE batch_id=?
select_product(table, batch_id) ==
    IF batch_id \in DOMAIN table THEN {table[batch_id]} ELSE {}

\* INSERT INTO products VALUES (?, ?, ?, ?, ?, ?, ?, ?)
insert_product(table, row) ==
    [b \in DOMAIN table \cup {row.batch_id} |->
        IF b = row.batch_id THEN row ELSE table[b]]

\* the UPDATE without its WHERE clause
update_product_no_where(table, new_stock, ts, batch_id) ==
    [b \in DOMAIN table |->
        [table[b] EXCEPT !.stock_percent = new_stock, !.last_updated = ts]]

\* the UPDATE that also sets status
update_product_sets_status(table, new_stock, ts, batch_id) ==
    [b \in DOMAIN table |->
        IF b = batch_id
        THEN [table[b] EXCEPT !.stock_percent = new_stock, !.last_updated = ts,
                              !.status = "Updated"]
        ELSE table[b]]

\* UPDATE products SET stock_percent=?, last_updated=? WHERE batch_id=?
update_product(table, new_stock, ts, batch_id) ==
    [b \in DOMAIN table |->
        IF b = batch_id
        THEN [table[b] EXCEPT !.stock_percent = new_stock, !.last_updated = ts]
        ELSE table[b]]

\* every row is given the first log_id
next_log_id_restarts(logs) == 1

\* log_id INTEGER PRIMARY KEY AUTOINCREMENT: rows are never deleted, so the
\* next log_id is one more than the number of rows
next_log_id(logs) == Len(logs) + 1

\* the entry with the new stock written into quantity_change
insert_log_change_as_new(logs, user, batch_id, operation, quantity_change, previous_stock, new_stock, ts) ==
    Append(logs, [log_id |-> Len(logs) + 1, username |-> user,
                  batch_id |-> batch_id, operation |-> operation,
                  quantity_change |-> new_stock,
                  previous_stock |-> previous_stock, new_stock |-> new_stock,
                  timestamp |-> ts])

\* the entry stamped with the clock read again at the INSERT
insert_log_own_clock(logs, user, batch_id, operation, quantity_change, previous_stock, new_stock, ts) ==
    Append(logs, [log_id |-> Len(logs) + 1, username |-> user,
                  batch_id |-> batch_id, operation |-> operation,
                  quantity_change |-> quantity_change,
                  previous_stock |-> previous_stock, new_stock |-> new_stock,
                  timestamp |-> strftime_ts(now)])

\* INSERT INTO transaction_logs VALUES (NULL, ?, ?, ?, ?, ?, ?, ?)
insert_log(logs, user, batch_id, operation, quantity_change, previous_stock, new_stock, ts) ==
    Append(logs, [log_id |-> next_log_id(logs), username |-> user,
                  batch_id |-> batch_id, operation |-> operation,
                  quantity_change |-> quantity_change,
                  previous_stock |-> previous_stock, new_stock |-> new_stock,
                  timestamp |-> ts])

\* the range check with one of its two comparisons missing
in_range_no_lower(new_stock) == new_stock <= 100
in_range_no_upper(new_stock) == 0 <= new_stock

\* if not 0 <= new_stock <= 100 (line 304)
in_range(new_stock) == 0 <= new_stock /\ new_stock <= 100

-----------------------------------------------------------------------------
(* Script runs *)

\* the local variables of a script run; Idle between runs
Idle ==
    [batch_id |-> <<>>, stock_percent |-> 0, ts |-> <<>>,
     change |-> 0, current_stock |-> 0, new_stock |-> 0, df |-> <<>>]

\* runs that are between their first statement and their commit
WritingPc == {"reg_product", "reg_logged",
              "scan_selected", "scan_updated", "scan_logged"}
RegisteringPc == {"reg_product", "reg_logged"}

Running(S) == {s \in Sessions : pc[s] \in S}

\* The model's bounds on the tables, counting the rows the runs under way
\* may still add
RoomForLog == Len(transaction_logs) + Cardinality(Running(WritingPc)) < MaxLogs
RoomForProduct ==
    Cardinality(DOMAIN products) + Cardinality(Running(RegisteringPc)) < MaxProducts

\* init_db (lines 17-66): CREATE TABLE IF NOT EXISTS changes nothing once the
\* tables exist, and INSERT OR IGNORE of the default admin changes nothing
\* once admin exists; the INSERT still needs the write lock, which it
\* returns with conn.commit().
init_db == writer = NoSession

\* what st.error puts on screen, and the exceptions nothing catches
Errors == {"No QR code detected", "Product not found",
           "Stock must be between 0 and 100", "Invalid username or password",
           "All fields are required", "Passwords do not match",
           "Username already exists"}
Exceptions == {"JSONDecodeError", "KeyError", "TypeError", "IntegrityError",
               "OperationalError", "StorageError"}

\* How a run's end shows: the page (None), the page with the st.error
\* message on it, or Streamlit's traceback of an uncaught exception
screen(shown) ==
    IF shown = "StorageError" THEN shown
    ELSE IF shown \in Exceptions THEN "exception"
    ELSE IF shown \in Errors THEN shown
    ELSE None

\* a run ends: its locals are gone
finish(s, shown) ==
    /\ pc' = [pc EXCEPT ![s] = "idle"]
    /\ loc' = [loc EXCEPT ![s] = Idle]
    /\ outcome' = [outcome EXCEPT ![s] = screen(shown)]

\* conn.commit(): the transaction's view becomes the committed tables
commit ==
    /\ products' = tx_products
    /\ transaction_logs' = tx_logs
    /\ writer' = NoSession
    /\ UNCHANGED <<users, tx_products, tx_logs>>

\* a connection in autocommit mode: what it wrote stays when it is dropped
rollback_keeps_writes ==
    /\ products' = tx_products
    /\ transaction_logs' = tx_logs
    /\ writer' = NoSession
    /\ UNCHANGED <<users, tx_products, tx_logs>>

\* a connection dropped without commit: SQLite rolls its transaction back
rollback ==
    /\ writer' = NoSession
    /\ tx_products' = products
    /\ tx_logs' = transaction_logs
    /\ UNCHANGED db

Init ==
    /\ products = <<>>
    /\ transaction_logs = <<>>
    /\ users = [u \in {"admin"} |-> sha256("admin123")]
    /\ writer = NoSession
    /\ tx_products = <<>>
    /\ tx_logs = <<>>
    /\ now = 0
    /\ logged_in = [s \in Sessions |-> FALSE]
    /\ username = [s \in Sessions |-> None]
    /\ page = [s \in Sessions |-> "login"]
    /\ pc = [s \in Sessions |-> "idle"]
    /\ loc = [s \in Sessions |-> Idle]
    /\ outcome = [s \in Sessions |-> None]
    /\ initial_stock = <<>>

\* go(page), the on_click callback of the navigation buttons
go(s, target) ==
    /\ pc[s] = "idle"
    /\ \/ ~logged_in[s] /\ page[s] = "login" /\ target = "register_user"
       \/ ~logged_in[s] /\ page[s] = "register_user" /\ target = "login"
       \/ logged_in[s] /\ page[s] = "home"
          /\ target \in {"register_product", "scan", "reports", "my_transactions"}
       \/ logged_in[s]
          /\ page[s] \in {"register_product", "scan", "reports", "my_transactions"}
          /\ target = "home"
    /\ page' = [page EXCEPT ![s] = target]
    /\ outcome' = [outcome EXCEPT ![s] = None]
    /\ UNCHANGED <<db, tx, clock, logged_in, username, pc, loc>>

\* logout() that leaves the name in st.session_state
logout_keeps_username(s) ==
    /\ pc[s] = "idle" /\ logged_in[s] /\ page[s] = "home"
    /\ logged_in' = [logged_in EXCEPT ![s] = FALSE]
    /\ page' = [page EXCEPT ![s] = "login"]
    /\ outcome' = [outcome EXCEPT ![s] = None]
    /\ UNCHANGED <<db, tx, clock, username, pc, loc>>

\* logout(), the on_click callback of the home page's Logout button
logout(s) ==
    /\ pc[s] = "idle" /\ logged_in[s] /\ page[s] = "home"
    /\ logged_in' = [logged_in EXCEPT ![s] = FALSE]
    /\ username' = [username EXCEPT ![s] = None]
    /\ page' = [page EXCEPT ![s] = "login"]
    /\ outcome' = [outcome EXCEPT ![s] = None]
    /\ UNCHANGED <<db, tx, clock, pc, loc>>

\* login_page, submitted (lines 107-125)
login_page(s, user, password) ==
    /\ pc[s] = "idle" /\ ~logged_in[s] /\ page[s] = "login"
    /\ init_db
    /\ IF user \in DOMAIN users /\ users[user] = sha256(password)
       THEN /\ logged_in' = [logged_in EXCEPT ![s] = TRUE]
            /\ username' = [username EXCEPT ![s] = user]
            /\ page' = [page EXCEPT ![s] = "home"]
            /\ outcome' = [outcome EXCEPT ![s] = None]
       ELSE /\ outcome' = [outcome EXCEPT ![s] = screen("Invalid username or password")]
            /\ UNCHANGED session_state
    /\ UNCHANGED <<db, tx, clock, pc, loc>>

\* register_user_page, submitted (lines 143-169)
register_user_page(s, user, password, confirm) ==
    /\ pc[s] = "idle" /\ ~logged_in[s] /\ page[s] = "register_user"
    /\ init_db
    /\ IF user = "" \/ password = ""
       THEN /\ outcome' = [outcome EXCEPT ![s] = screen("All fields are required")]
            /\ UNCHANGED <<users, page>>
       ELSE IF password # confirm
       THEN /\ outcome' = [outcome EXCEPT ![s] = screen("Passwords do not match")]
            /\ UNCHANGED <<users, page>>
       ELSE IF user \in DOMAIN users
       THEN /\ outcome' = [outcome EXCEPT ![s] = screen("Username already exists")]
            /\ UNCHANGED <<users, page>>
       ELSE /\ users' = [u \in DOMAIN users \cup {user} |->
                            IF u = user THEN sha256(password)
                            ELSE users[u]]
            /\ page' = [page EXCEPT ![s] = "login"]
            /\ outcome' = [outcome EXCEPT ![s] = None]
    /\ UNCHANGED <<products, transaction_logs, tx, clock, logged_in, username, pc, loc>>


-----------------------------------------------------------------------------
(* register_product_page, submitted (lines 206-256) *)

\* lines 209-231: the identifier, init_db, ts, INSERT INTO products.  ts is
\* read before the INSERT, which may have waited for the write lock since
\* instant t.  batch_id is the PRIMARY KEY: a row with the same batch_id
\* makes the INSERT raise sqlite3.IntegrityError, which nothing catches; the
\* run ends there and its connection is dropped.
register_product_insert(s, form, t) ==
    LET batch_id == generate_batch_id(form.company, form.product_name, t, form.token)
        ts == strftime_ts(t)
    IN  /\ pc[s] = "idle" /\ logged_in[s] /\ page[s] = "register_product"
        /\ init_db
        /\ IF batch_id \in DOMAIN products
           THEN /\ finish(s, "IntegrityError")
                /\ UNCHANGED <<db, tx>>
           ELSE /\ RoomForLog /\ RoomForProduct
                /\ writer' = s
                /\ tx_products' =
                       insert_product(products,
                           [batch_id |-> batch_id,
                            product_name |-> form.product_name,
                            company |-> form.company,
                            level |-> form.level,
                            deadline |-> form.deadline,
                            stock_percent |-> form.stock_percent,
                            status |-> "Pending",
                            last_updated |-> ts])
                /\ pc' = [pc EXCEPT ![s] = "reg_product"]
                /\ loc' = [loc EXCEPT ![s] =
                              [Idle EXCEPT !.batch_id = batch_id,
                                           !.stock_percent = form.stock_percent,
                                           !.ts = ts]]
                /\ outcome' = [outcome EXCEPT ![s] = None]
                /\ UNCHANGED <<db, tx_logs>>
        /\ UNCHANGED <<clock, session_state>>

\* lines 233-244: INSERT INTO transaction_logs, "Initial Registration"
register_product_log(s) ==
    /\ pc[s] = "reg_product" /\ writer = s
    /\ tx_logs' = insert_log(tx_logs, username[s], loc[s].batch_id,
                             "Initial Registration", loc[s].stock_percent, 0,
                             loc[s].stock_percent, loc[s].ts)
    /\ pc' = [pc EXCEPT ![s] = "reg_logged"]
    /\ UNCHANGED <<db, writer, tx_products, clock, session_state, loc, outcome>>

\* lines 246-256: conn.commit(), then the QR code and st.success
register_product_commit(s) ==
    /\ pc[s] = "reg_logged" /\ writer = s
    /\ commit
    /\ finish(s, "Product registered successfully")
    /\ initial_stock' = [b \in DOMAIN initial_stock \cup {loc[s].batch_id} |->
                            IF b = loc[s].batch_id THEN loc[s].stock_percent
                            ELSE initial_stock[b]]
    /\ UNCHANGED <<now, session_state>>

-----------------------------------------------------------------------------
(* scan_page with an uploaded image (lines 267-327) *)

\* lines 271-300: decode the image, read the payload, init_db, SELECT.
\* submit says whether this run follows a press of "Update Stock".
scan_page_select(s, image, submit, change) ==
    /\ pc[s] = "idle" /\ logged_in[s] /\ page[s] = "scan"
    /\ LET data == detectAndDecode(image)
           got == payload_batch_id(data)
       IN  IF data = <<>>
           THEN finish(s, "No QR code detected")
           ELSE IF got.raised # None
           THEN finish(s, got.raised)
           ELSE /\ init_db
                /\ IF select_product(products, got.batch_id) = {}
                   THEN finish(s, "Product not found")
                   ELSE IF ~submit
                   THEN finish(s, "Product Details")
                   ELSE /\ RoomForLog
                        /\ pc' = [pc EXCEPT ![s] = "scan_selected"]
                        /\ loc' = [loc EXCEPT ![s] =
                               [Idle EXCEPT !.batch_id = got.batch_id,
                                            !.change = change,
                                            !.current_stock =
                                                products[got.batch_id].stock_percent]]
                        /\ outcome' = [outcome EXCEPT ![s] = None]
    /\ UNCHANGED <<db, tx, clock, session_state>>

\* lines 302-311: new_stock, the range check, ts, UPDATE products, which
\* opens the transaction.  ts is read before the UPDATE, which may have
\* waited for the write lock since instant t.
scan_page_update(s, t) ==
    /\ pc[s] = "scan_selected"
    /\ LET new_stock == loc[s].current_stock + loc[s].change
           ts == strftime_ts(t)
       IN  IF ~in_range(new_stock)
           THEN /\ finish(s, "Stock must be between 0 and 100")
                /\ UNCHANGED <<db, tx>>
           ELSE /\ writer = NoSession
                /\ writer' = s
                /\ tx_products' = update_product(products, new_stock, ts,
                                                 loc[s].batch_id)
                /\ pc' = [pc EXCEPT ![s] = "scan_updated"]
                /\ loc' = [loc EXCEPT ![s].new_stock = new_stock, ![s].ts = ts]
                /\ UNCHANGED <<db, tx_logs, outcome>>
    /\ UNCHANGED <<clock, session_state>>

\* the stock update logged under the registration's operation
scan_page_log_as_registration(s) ==
    /\ pc[s] = "scan_updated" /\ writer = s
    /\ tx_logs' = insert_log(tx_logs, username[s], loc[s].batch_id,
                             "Initial Registration", loc[s].change,
                             loc[s].current_stock, loc[s].new_stock, loc[s].ts)
    /\ pc' = [pc EXCEPT ![s] = "scan_logged"]
    /\ UNCHANGED <<db, writer, tx_products, clock, session_state, loc, outcome>>

\* lines 312-323: INSERT INTO transaction_logs, "Stock Update"
scan_page_log(s) ==
    /\ pc[s] = "scan_updated" /\ writer = s
    /\ tx_logs' = insert_log(tx_logs, username[s], loc[s].batch_id,
                             "Stock Update", loc[s].change,
                             loc[s].current_stock, loc[s].new_stock, loc[s].ts)
    /\ pc' = [pc EXCEPT ![s] = "scan_logged"]
    /\ UNCHANGED <<db, writer, tx_products, clock, session_state, loc, outcome>>

\* lines 324-327: conn.commit(), st.success, st.rerun
scan_page_commit(s) ==
    /\ pc[s] = "scan_logged" /\ writer = s
    /\ commit
    /\ finish(s, "Stock updated successfully")
    /\ UNCHANGED <<clock, session_state>>

-----------------------------------------------------------------------------
(* What the environment does to a run *)

\* The write lock is held by another connection for longer than the
\* connection's timeout: sqlite3.OperationalError ("database is locked"),
\* which nothing catches.  It strikes init_db's INSERT at the start of a run
\* and the UPDATE that opens the transaction of a stock update.
database_locked(s) ==
    /\ writer \notin {NoSession, s}
    /\ \/ pc[s] = "scan_selected"
          /\ in_range(loc[s].current_stock + loc[s].change)
       \/ pc[s] = "idle" /\ logged_in[s] /\ page[s] \in {"register_product", "scan"}
    /\ finish(s, "OperationalError")
    /\ UNCHANGED <<db, tx, clock, session_state>>

\* The store fails or the process dies in the middle of a run: the run's
\* connection is gone without commit.
storage_failure(s) ==
    /\ pc[s] \in WritingPc
    /\ IF writer = s THEN rollback ELSE UNCHANGED <<db, tx>>
    /\ finish(s, "StorageError")
    /\ UNCHANGED <<clock, session_state>>

\* a second passes
tick ==
    /\ now < MaxTime
    /\ now' = now + 1
    /\ UNCHANGED <<db, tx, session_state, pc, loc, outcome, initial_stock>>

-----------------------------------------------------------------------------
(* Uploads: the labels printed so far, the label of a batch never          *)
(* registered, a photo without a code, and codes that carry other payloads *)

UnknownId == generate_batch_id(gear, acme, 0, TokenB)
Labels ==
    {qrcode_make(json_dumps_batch_id(b)) : b \in DOMAIN products \cup {UnknownId}}
ImageInputs ==
    Labels \cup {Photo, qrcode_make(OtherFieldText), qrcode_make(NumberText),
                 qrcode_make(GarbageText)}

SessionStep(s) ==
    \/ \E target \in Pages : go(s, target)
    \/ logout(s)
    \/ \E user \in UserInputs, password \in PasswordInputs :
          login_page(s, user, password)
    \/ \E user \in UserInputs, password \in PasswordInputs,
          confirm \in PasswordInputs :
          register_user_page(s, user, password, confirm)
    \/ \E form \in RegistrationInputs, t \in 0..now :
          register_product_insert(s, form, t)
    \/ register_product_log(s)
    \/ register_product_commit(s)
    \/ \E image \in ImageInputs : scan_page_select(s, image, FALSE, 0)
    \/ \E image \in ImageInputs, change \in ChangeInputs :
          scan_page_select(s, image, TRUE, change)
    \/ \E t \in 0..now : scan_page_update(s, t)
    \/ scan_page_log(s)
    \/ scan_page_commit(s)
    \/ storage_failure(s)

Next ==
    \/ \E s \in Sessions : SessionStep(s)
    \/ \E s \in Sessions : database_locked(s)
    \/ tick

Spec == Init /\ [][Next]_vars

\* The same program with the script runs executed one at a time: a run
\* starts only when no other session's run is under way.
OneAtATime(s) == \A other \in Sessions \ {s} : pc[other] = "idle"

SeqNext ==
    \/ \E s \in Sessions : OneAtATime(s) /\ SessionStep(s)
    \/ tick

SeqSpec == Init /\ [][SeqNext]_vars

-----------------------------------------------------------------------------
(* The label's way from register_product_page to scan_page: one session    *)
(* registers batches whose company holds the characters json.dumps must    *)
(* escape, and uploads the labels it was given.                            *)

MaxNameLen == 2       \* characters of a company typed into the form

\* the characters typed: a letter, the quote and the backslash
NameAlphabet == {"a", "\"", "\\"}
RECURSIVE Texts(_)
Texts(n) ==
    IF n = 0 THEN {<<>>}
    ELSE Texts(n - 1) \cup
         {Append(str, c) : str \in {x \in Texts(n - 1) : Len(x) = n - 1},
                           c \in NameAlphabet}
CompanyInputs == Texts(MaxNameLen) \ {<<>>}

CodecForms ==
    {Form(company, gear, "Raw", "2026-12-31", 50, TokenA) : company \in CompanyInputs}

\* the labels printed so far (lines 249-256)
PrintedLabels == {qrcode_make(json_dumps_batch_id(b)) : b \in DOMAIN products}

CodecStep(s) ==
    \/ \E user \in UserInputs, password \in PasswordInputs :
          login_page(s, user, password)
    \/ \E target \in {"home", "register_product", "scan"} : go(s, target)
    \/ \E form \in CodecForms : register_product_insert(s, form, now)
    \/ register_product_log(s)
    \/ register_product_commit(s)
    \/ \E image \in PrintedLabels : scan_page_select(s, image, FALSE, 0)
    \/ \E image \in PrintedLabels, change \in ChangeInputs :
          scan_page_select(s, image, TRUE, change)
    \/ \E t \in 0..now : scan_page_update(s, t)
    \/ scan_page_log(s)
    \/ scan_page_commit(s)

CodecNext == CodecStep("s1")

CodecSpec == Init /\ [][CodecNext]_vars

-----------------------------------------------------------------------------
(* my_transactions_page and reports_page (lines 333-371) *)

\* the order of two texts of the same length made of digits, as SQLite
\* compares TEXT: character by character
RECURSIVE text_leq(_, _)
text_leq(x, y) ==
    IF x = <<>> \/ y = <<>> THEN x = <<>>
    ELSE IF Head(x) # Head(y) THEN Head(x) < Head(y)
    ELSE text_leq(Tail(x), Tail(y))

\* SELECT batch_id, operation, quantity_change, previous_stock, new_stock,
\* timestamp: the columns of a row of the listing
listed(e) ==
    [batch_id |-> e.batch_id, operation |-> e.operation,
     quantity_change |-> e.quantity_change, previous_stock |-> e.previous_stock,
     new_stock |-> e.new_stock, timestamp |-> e.timestamp]

\* the one-to-one sequences over a set of rows' positions
Orderings(S) ==
    {p \in [1..Cardinality(S) -> S] :
        \A i, j \in 1..Cardinality(S) : i # j => p[i] # p[j]}

\* the listing without its WHERE clause
select_transactions_all(logs, user) ==
    {[k \in 1..Len(logs) |-> listed(logs[p[k]])] :
        p \in {q \in Orderings(1..Len(logs)) :
                 \A k \in 1..(Len(logs) - 1) :
                     text_leq(logs[q[k + 1]].timestamp, logs[q[k]].timestamp)}}

\* ... FROM transaction_logs WHERE username = ? ORDER BY timestamp DESC:
\* the data frames the query may return; SQL leaves the order of rows with
\* equal timestamps open
select_transactions(logs, user) ==
    LET mine == {i \in 1..Len(logs) : logs[i].username = user}
    IN  {[k \in 1..Cardinality(mine) |-> listed(logs[p[k]])] :
            p \in {q \in Orderings(mine) :
                     \A k \in 1..(Cardinality(mine) - 1) :
                         text_leq(logs[q[k + 1]].timestamp, logs[q[k]].timestamp)}}

\* SELECT * FROM products ORDER BY deadline: the forms all carry one
\* deadline, so that every order of the rows may be returned
select_products(table) ==
    {[k \in 1..Cardinality(DOMAIN table) |-> table[p[k]]] :
        p \in {q \in Orderings(DOMAIN table) :
                 \A k \in 1..(Cardinality(DOMAIN table) - 1) :
                     table[q[k]].deadline = table[q[k + 1]].deadline}}

\* lines 338-350: init_db, pd.read_sql
my_transactions_select(s) ==
    /\ pc[s] = "idle" /\ logged_in[s] /\ page[s] = "my_transactions"
    /\ init_db
    /\ \E df \in select_transactions(transaction_logs, username[s]) :
          loc' = [loc EXCEPT ![s] = [Idle EXCEPT !.df = df]]
    /\ pc' = [pc EXCEPT ![s] = "my_transactions_read"]
    /\ outcome' = [outcome EXCEPT ![s] = None]
    /\ UNCHANGED <<db, tx, clock, session_state>>

\* lines 352-356: st.info("No transactions found.") or st.dataframe(df)
my_transactions_show(s) ==
    /\ pc[s] = "my_transactions_read"
    /\ finish(s, IF loc[s].df = <<>> THEN "No transactions found." ELSE "dataframe")
    /\ UNCHANGED <<db, tx, clock, session_state>>

\* lines 367-369: init_db, pd.read_sql
reports_select(s) ==
    /\ pc[s] = "idle" /\ logged_in[s] /\ page[s] = "reports"
    /\ init_db
    /\ \E df \in select_products(products) :
          loc' = [loc EXCEPT ![s] = [Idle EXCEPT !.df = df]]
    /\ pc' = [pc EXCEPT ![s] = "reports_read"]
    /\ outcome' = [outcome EXCEPT ![s] = None]
    /\ UNCHANGED <<db, tx, clock, session_state>>

\* line 371: st.dataframe(df.drop(columns=["last_updated"]))
reports_show(s) ==
    /\ pc[s] = "reports_read"
    /\ finish(s, "dataframe")
    /\ UNCHANGED <<db, tx, clock, session_state>>

\* The accounts and what they do: the default account and one created on
\* the Create Account page register a batch, update its stock and read
\* the two listings.
AccountInputs == {"admin", "op"}
AuditForms == {Form(acme, gear, "Raw", "2026-12-31", 50, TokenA)}
AuditChanges == {change \in {20} : ChangeMin <= change /\ change <= ChangeMax}

AuditStep(s) ==
    \/ \E target \in Pages : go(s, target)
    \/ logout(s)
    \/ \E user \in AccountInputs, password \in PasswordInputs :
          login_page(s, user, password)
    \/ \E user \in AccountInputs \cup {""} :
          register_user_page(s, user, "pw", "pw")
    \/ \E form \in AuditForms, t \in 0..now : register_product_insert(s, form, t)
    \/ register_product_log(s)
    \/ register_product_commit(s)
    \/ \E image \in PrintedLabels, change \in AuditChanges :
          scan_page_select(s, image, TRUE, change)
    \/ \E t \in 0..now : scan_page_update(s, t)
    \/ scan_page_log(s)
    \/ scan_page_commit(s)
    \/ my_transactions_select(s)
    \/ my_transactions_show(s)
    \/ reports_select(s)
    \/ reports_show(s)

AuditNext ==
    \/ \E s \in Sessions : AuditStep(s)
    \/ tick

AuditSpec == Init /\ [][AuditNext]_vars

-----------------------------------------------------------------------------
(* The audit trail of one batch *)

batch_logs(logs, b) == SelectSeq(logs, LAMBDA e : e.batch_id = b)
stock_updates(logs, b) ==
    SelectSeq(logs, LAMBDA e : e.batch_id = b /\ e.operation = "Stock Update")

RECURSIVE sum_quantity_change(_)
sum_quantity_change(entries) ==
    IF entries = <<>> THEN 0
    ELSE Head(entries).quantity_change + sum_quantity_change(Tail(entries))

-----------------------------------------------------------------------------
(* C1 *)

\* C1: in every reachable state, whatever the sessions have registered and
\* updated and however their steps interleaved, every stored batch has
\* 0 <= stock_percent <= 100 (in the committed table and in the view of an
\* open transaction).
C1_StockPercentInRange ==
    /\ \A b \in DOMAIN products :
          0 <= products[b].stock_percent /\ products[b].stock_percent <= 100
    /\ \A b \in DOMAIN tx_products :
          0 <= tx_products[b].stock_percent /\ tx_products[b].stock_percent <= 100

\* a batch that stock updates have brought to the lower end of the range
C1_Witness ==
    \E b \in DOMAIN products :
        /\ products[b].stock_percent = 0
        /\ Len(stock_updates(transaction_logs, b)) >= 1

-----------------------------------------------------------------------------
(* C2 *)

\* C2: two concurrent stock updates d1, d2 of one batch end with
\* stock_percent = initial + d1 + d2 and with two audit entries whose
\* previous_stock / new_stock pairs follow one serial order: the first
\* committed starts from the initial stock, the second from the first's
\* new_stock.  No update is lost.
C2_NoLostUpdate ==
    \A b \in DOMAIN products :
        LET ups == stock_updates(transaction_logs, b)
        IN  Len(ups) = 2 =>
              /\ products[b].stock_percent =
                     initial_stock[b] + ups[1].quantity_change
                                      + ups[2].quantity_change
              /\ ups[1].previous_stock = initial_stock[b]
              /\ ups[2].previous_stock = ups[1].new_stock

-----------------------------------------------------------------------------
(* C3 *)

\* C3: a stock update whose current_stock + change falls outside [0,100] is
\* rejected: the step that decides it shows the error and leaves the
\* products table (stock_percent, last_updated), the audit trail and the
\* store's transaction state exactly as they were, so that repeating it
\* has no cumulative effect.
C3_RejectedUpdateChangesNothing ==
    [][\A s \in Sessions :
          LET new_stock == loc[s].current_stock + loc[s].change
          IN  (/\ pc[s] = "scan_selected"
               /\ (new_stock < 0 \/ new_stock > 100)
               /\ pc'[s] # pc[s])
              => /\ pc'[s] = "idle"
                 /\ outcome'[s] \in {"Stock must be between 0 and 100",
                                     "StorageError"}
                 /\ UNCHANGED <<db, tx>>]_vars

\* a session has been shown the rejection, and the batches and the trail
\* hold only what registrations and accepted updates put there
C3_Witness ==
    \E s \in Sessions :
        /\ outcome[s] = "Stock must be between 0 and 100"
        /\ \E b \in DOMAIN products : products[b].stock_percent \in {0, 100}

-----------------------------------------------------------------------------
(* C4 *)

\* C4: in every reachable state the audit entries of each batch, in log_id
\* order, form a chain: the trail starts with the registration of the
\* initial stock, each later entry's previous_stock is the new_stock of the
\* entry before it, and the latest new_stock is the batch's stock_percent.
C4_AuditChain ==
    \A b \in DOMAIN products :
        LET es == batch_logs(transaction_logs, b)
        IN  /\ Len(es) >= 1
            /\ es[1].new_stock = initial_stock[b]
            /\ \A i \in 2..Len(es) : es[i].previous_stock = es[i - 1].new_stock
            /\ es[Len(es)].new_stock = products[b].stock_percent

-----------------------------------------------------------------------------
(* C5 *)

\* C5: whatever step is taken, a store failure in the middle of a run
\* included, the committed tables change only as a pair: one audit entry is
\* appended and the batch row it names is the only row written, inserted
\* by a registration or updated by a stock update, and holds the entry's
\* new_stock and timestamp.  No step commits a row without its entry or an
\* entry without its row.
C5_PairCommitsTogether ==
    [][(products' # products \/ transaction_logs' # transaction_logs) =>
          /\ Len(transaction_logs') = Len(transaction_logs) + 1
          /\ SubSeq(transaction_logs', 1, Len(transaction_logs)) = transaction_logs
          /\ LET e == transaction_logs'[Len(transaction_logs')]
             IN  /\ DOMAIN products' = DOMAIN products \cup {e.batch_id}
                 /\ products'[e.batch_id].stock_percent = e.new_stock
                 /\ products'[e.batch_id].last_updated = e.timestamp
                 /\ \A b \in DOMAIN products \ {e.batch_id} :
                       products'[b] = products[b]
                 /\ IF e.batch_id \in DOMAIN products
                    THEN e.operation = "Stock Update"
                    ELSE e.operation = "Initial Registration"]_vars

\* a registration died after its INSERT INTO products and before its
\* commit, and no batch row is stored
C5_Witness ==
    \E s \in Sessions :
        /\ outcome[s] = "StorageError"
        /\ page[s] = "register_product"
        /\ products = <<>> /\ transaction_logs = <<>>

-----------------------------------------------------------------------------
(* C6 *)

\* C6 as stated: with the runs executed one at a time, the quantity_change
\* of all the audit entries of a batch add up to its stock_percent minus
\* the stock given at registration.
C6_SumOfAllChanges ==
    \A b \in DOMAIN products :
        sum_quantity_change(batch_logs(transaction_logs, b))
            = products[b].stock_percent - initial_stock[b]

\* C6 amended: with the runs executed one at a time, the quantity_change of
\* the "Stock Update" entries of a batch add up to its stock_percent minus
\* the stock given at registration; the "Initial Registration" entry
\* carries quantity_change = the initial stock, so all the entries together
\* add up to the stock_percent itself.
C6_SumOfStockUpdates ==
    \A b \in DOMAIN products :
        /\ sum_quantity_change(stock_updates(transaction_logs, b))
               = products[b].stock_percent - initial_stock[b]
        /\ sum_quantity_change(batch_logs(transaction_logs, b))
               = products[b].stock_percent

\* a batch registered with a stock other than 0 and updated twice
C6_Witness ==
    \E b \in DOMAIN products :
        /\ initial_stock[b] # 0
        /\ Len(stock_updates(transaction_logs, b)) = 2

-----------------------------------------------------------------------------
(* C7 *)

\* C7: a registration with an empty productName or company, or with an
\* initialStock outside [0,100], is refused: no batch row and no audit
\* entry of such a registration is ever stored.
C7_RegistrationValidated ==
    \A b \in DOMAIN products :
        /\ products[b].product_name # <<>>
        /\ products[b].company # <<>>
        /\ 0 <= initial_stock[b] /\ initial_stock[b] <= 100

-----------------------------------------------------------------------------
(* C8 *)

\* C8: a registration whose generated identifier is already stored draws
\* another and tries again, and fails, after a bounded number of attempts,
\* with a reported DuplicateError: no registration run ends in an uncaught
\* exception of the INSERT.  (On the product page, with the write lock
\* free, the INSERT's IntegrityError is the only exception a run can end in.)
C8_CollisionIsReported ==
    [][\A s \in Sessions :
          ~(/\ pc[s] = "idle" /\ page[s] = "register_product"
            /\ writer = NoSession
            /\ outcome[s] # "exception"
            /\ outcome'[s] = "exception")]_vars

-----------------------------------------------------------------------------
(* C9 *)

\* the fields of a text between the separators
RECURSIVE split(_, _)
split(str, sep) ==
    IF \A i \in 1..Len(str) : str[i] # sep THEN <<str>>
    ELSE LET k == CHOOSE i \in 1..Len(str) :
                     str[i] = sep /\ \A j \in 1..(i - 1) : str[j] # sep
         IN  <<SubSeq(str, 1, k - 1)>> \o split(SubSeq(str, k + 1, Len(str)), sep)

chars(str) == {str[i] : i \in 1..Len(str)}
Lower == chars(LowerCase)

\* AAA-BBB-YYMMDD-XXXX, read to the letter
FormatAAA_BBB_YYMMDD_XXXX(batch_id) ==
    LET f == split(batch_id, "-")
    IN  /\ Len(f) = 4
        /\ Len(f[1]) = 3 /\ chars(f[1]) \subseteq UpperLetters
        /\ Len(f[2]) = 3 /\ chars(f[2]) \subseteq UpperLetters
        /\ Len(f[3]) = 6 /\ chars(f[3]) \subseteq Digits
        /\ Len(f[4]) = 4 /\ chars(f[4]) \subseteq TokenAlphabet

\* the same with prefixes of one to three characters, none of them lower case
FormatWithShortPrefixes(batch_id) ==
    LET f == split(batch_id, "-")
    IN  /\ Len(f) = 4
        /\ Len(f[1]) \in 1..3 /\ chars(f[1]) \cap Lower = {}
        /\ Len(f[2]) \in 1..3 /\ chars(f[2]) \cap Lower = {}
        /\ Len(f[3]) = 6 /\ chars(f[3]) \subseteq Digits
        /\ Len(f[4]) = 4 /\ chars(f[4]) \subseteq TokenAlphabet

\* the step of session s is the commit of a registration of valid inputs
\* (the row is on its way from the transaction's view to the table)
RegistrationCommits(s) ==
    /\ pc[s] = "reg_logged" /\ pc'[s] = "idle" /\ outcome'[s] = None
    /\ tx_products[loc[s].batch_id].product_name # <<>>
    /\ tx_products[loc[s].batch_id].company # <<>>

\* C9 as stated: for valid inputs, the lookup that follows a registration
\* returns the batch with stock_percent = initialStock, status = "Pending"
\* and a batch_id AAA-BBB-YYMMDD-XXXX with two 3-character prefixes.
C9_CreateThenGet ==
    [][\A s \in Sessions :
          RegistrationCommits(s) =>
              \E row \in select_product(products', loc[s].batch_id) :
                  /\ row.stock_percent = loc[s].stock_percent
                  /\ row.status = "Pending"
                  /\ row.batch_id = loc[s].batch_id
                  /\ FormatAAA_BBB_YYMMDD_XXXX(row.batch_id)]_vars

\* C9 amended: the same, the prefixes being the first three characters of
\* company and productName in upper case, and fewer than three characters
\* when the name is shorter than three.
C9_CreateThenGetShortPrefixes ==
    [][\A s \in Sessions :
          RegistrationCommits(s) =>
              \E row \in select_product(products', loc[s].batch_id) :
                  LET f == split(row.batch_id, "-")
                  IN  /\ row.stock_percent = loc[s].stock_percent
                      /\ row.status = "Pending"
                      /\ row.batch_id = loc[s].batch_id
                      /\ FormatWithShortPrefixes(row.batch_id)
                      /\ f[1] = upper(prefix(row.company, 3))
                      /\ f[2] = upper(prefix(row.product_name, 3))
                      /\ (Len(row.company) >= 3 => Len(f[1]) = 3)
                      /\ (Len(row.product_name) >= 3 => Len(f[2]) = 3)]_vars

\* the batch of the two-letter company is stored as registered, and so is
\* a batch with two three-letter prefixes
C9_Witness ==
    /\ \E b \in DOMAIN products :
          /\ products[b].company = ab /\ products[b].product_name = gear
          /\ products[b].stock_percent = 100 /\ products[b].status = "Pending"
          /\ split(b, "-")[1] = <<"A", "B">>
    /\ \E b \in DOMAIN products : FormatAAA_BBB_YYMMDD_XXXX(b)

-----------------------------------------------------------------------------
(* C10 *)

\* C10: decoding never ends in an uncaught exception: an image without a
\* code, a code whose text is not JSON and a JSON payload without batch_id
\* are all reported failures.  (On the scan page, with the write lock free,
\* the exceptions of json.loads(data)["batch_id"] are the only ones a run
\* that has not reached the store can end in.)
C10_DecodeNeverRaises ==
    [][\A s \in Sessions :
          ~(/\ pc[s] = "idle" /\ page[s] = "scan"
            /\ writer = NoSession
            /\ outcome[s] # "exception"
            /\ pc'[s] = "idle"
            /\ outcome'[s] = "exception")]_vars

-----------------------------------------------------------------------------
(* C11 *)

\* C11: for every identifier a registration has stored (none of them
\* empty), reading the payload of the label made from it gives exactly that
\* identifier back, without an exception; and a run that scans a printed
\* label never ends with "No QR code detected", "Product not found" or an
\* uncaught exception.
C11_RoundTrip ==
    /\ \A b \in DOMAIN products :
          LET image == qrcode_make(json_dumps_batch_id(b))
              got == payload_batch_id(detectAndDecode(image))
          IN  /\ b # <<>>
              /\ detectAndDecode(image) # <<>>
              /\ got.raised = None
              /\ got.batch_id = b
    /\ \A s \in Sessions :
          page[s] = "scan" =>
              outcome[s] \notin {"exception", "No QR code detected",
                                 "Product not found"}

\* a batch whose identifier holds a quote and a backslash is stored, and a
\* run that scanned its label has found its row
C11_Witness ==
    \E s \in Sessions :
        /\ pc[s] = "scan_selected"
        /\ loc[s].batch_id \in DOMAIN products
        /\ \E i, j \in 1..Len(loc[s].batch_id) :
              loc[s].batch_id[i] = "\"" /\ loc[s].batch_id[j] = "\\"

-----------------------------------------------------------------------------
(* C12 *)

\* every entry of a trail
entries(logs) == {logs[i] : i \in 1..Len(logs)}

\* C12: every audit entry, committed or written inside the open
\* transaction, by a registration or by a stock update and under every
\* interleaving of the sessions, has
\* new_stock = previous_stock + quantity_change.
C12_NewIsPreviousPlusChange ==
    \A e \in entries(transaction_logs) \cup entries(tx_logs) :
        e.new_stock = e.previous_stock + e.quantity_change

\* two stock updates that raced for one batch are both in the trail (they
\* started from the same previous_stock), next to the registration
C12_Witness ==
    \E b \in DOMAIN products :
        LET ups == stock_updates(transaction_logs, b)
        IN  /\ Len(ups) = 2
            /\ ups[1].previous_stock = ups[2].previous_stock
            /\ ups[1].quantity_change # 0
            /\ Len(batch_logs(transaction_logs, b)) = 3

-----------------------------------------------------------------------------
(* C13 *)

registrations(logs, b) ==
    SelectSeq(logs, LAMBDA e : e.batch_id = b /\ e.operation = "Initial Registration")

\* C13: in every reachable state each stored batch has exactly one
\* "Initial Registration" entry; it is the first entry of the batch in
\* log_id order and has previous_stock = 0 and new_stock = the stock given
\* at registration.  The entry and the batch row are committed by the same
\* transaction: no entry names a batch that is not stored, and the view
\* inside an open transaction never holds a second registration entry of
\* a batch.
C13_OneInitialRegistration ==
    /\ \A b \in DOMAIN products :
          LET es == batch_logs(transaction_logs, b)
          IN  /\ Len(registrations(transaction_logs, b)) = 1
              /\ es[1].operation = "Initial Registration"
              /\ es[1].previous_stock = 0
              /\ es[1].new_stock = initial_stock[b]
    /\ \A e \in entries(transaction_logs) : e.batch_id \in DOMAIN products
    /\ \A b \in DOMAIN tx_products : Len(registrations(tx_logs, b)) <= 1

\* a batch registered with a stock other than 0 has been updated, and a
\* later run on the product page has ended in an uncaught exception
C13_Witness ==
    \E b \in DOMAIN products :
        /\ initial_stock[b] # 0
        /\ Len(stock_updates(transaction_logs, b)) >= 1
        /\ \E s \in Sessions :
              page[s] = "register_product" /\ outcome[s] = "exception"

-----------------------------------------------------------------------------
(* C14 *)

\* C14: whatever step is taken, the committed trail only grows at its end:
\* the entries already committed stay where they are with every field as
\* it was, and an entry that is appended has a log_id greater than every
\* log_id already in the trail.
C14_AppendOnly ==
    [][/\ Len(transaction_logs') >= Len(transaction_logs)
       /\ SubSeq(transaction_logs', 1, Len(transaction_logs)) = transaction_logs
       /\ \A i \in (Len(transaction_logs) + 1)..Len(transaction_logs') :
             \A j \in 1..Len(transaction_logs) :
                 transaction_logs'[i].log_id > transaction_logs[j].log_id]_vars

\* the trail holds three entries, and a run that died in its transaction
\* has left none
C14_Witness ==
    /\ Len(transaction_logs) >= 3
    /\ \A i \in 1..Len(transaction_logs) : transaction_logs[i].log_id = i
    /\ \E s \in Sessions : outcome[s] = "StorageError"

-----------------------------------------------------------------------------
(* C15 *)

\* C15: whatever step is taken, every stored batch stays stored with its
\* batch_id, product_name, company, level, deadline and status as they
\* were; and the commit of a stock update changes nothing of the target
\* batch but stock_percent and last_updated, and nothing of any other batch.
C15_BatchFieldsImmutable ==
    [][/\ \A b \in DOMAIN products :
             /\ b \in DOMAIN products'
             /\ products'[b].batch_id = products[b].batch_id
             /\ products'[b].product_name = products[b].product_name
             /\ products'[b].company = products[b].company
             /\ products'[b].level = products[b].level
             /\ products'[b].deadline = products[b].deadline
             /\ products'[b].status = products[b].status
       /\ \A s \in Sessions :
             (pc[s] = "scan_logged" /\ pc'[s] = "idle") =>
                 /\ DOMAIN products' = DOMAIN products
                 /\ \A b \in DOMAIN products \ {loc[s].batch_id} :
                       products'[b] = products[b]]_vars

\* two batches are stored; stock updates have moved the stock of one of
\* them away from the stock it was registered with
C15_Witness ==
    /\ Cardinality(DOMAIN products) >= 2
    /\ \E b \in DOMAIN products :
          /\ Len(stock_updates(transaction_logs, b)) >= 1
          /\ products[b].stock_percent # initial_stock[b]
          /\ products[b].status = "Pending"

-----------------------------------------------------------------------------
(* C18 *)

\* C18: in every reachable state the last_updated of each stored batch is
\* the timestamp of the batch's latest audit entry in log_id order.
C18_LastUpdatedIsLatestEntry ==
    \A b \in DOMAIN products :
        LET es == batch_logs(transaction_logs, b)
        IN  /\ Len(es) >= 1
            /\ products[b].last_updated = es[Len(es)].timestamp

\* a batch whose latest entry is a stock update stamped with the present
\* second, which is not the second of its registration
C18_Witness ==
    \E b \in DOMAIN products :
        LET es == batch_logs(transaction_logs, b)
        IN  /\ Len(es) >= 2
            /\ es[Len(es)].operation = "Stock Update"
            /\ es[Len(es)].timestamp # es[1].timestamp
            /\ products[b].last_updated = strftime_ts(now)

-----------------------------------------------------------------------------
(* C16 *)

\* C16: the step in which a session's My Transactions run reads the trail
\* gives it a data frame that holds, once each, exactly the committed
\* entries whose username is the session's own (as many rows as there are
\* such entries, each the listed columns of one of them, none of another
\* account's), with timestamps in descending order; and neither that step
\* nor the step that shows the frame changes the tables or the transaction
\* state of the store.
C16_ForActor ==
    [][\A s \in Sessions :
          /\ (pc[s] = "idle" /\ pc'[s] = "my_transactions_read") =>
                LET df == loc'[s].df
                    mine == SelectSeq(transaction_logs,
                                      LAMBDA e : e.username = username[s])
                IN  /\ Len(df) = Len(mine)
                    /\ \E p \in [1..Len(mine) -> 1..Len(mine)] :
                          /\ \A i, j \in 1..Len(mine) : i # j => p[i] # p[j]
                          /\ \A k \in 1..Len(mine) : df[k] = listed(mine[p[k]])
                    /\ \A k \in 1..(Len(df) - 1) :
                          text_leq(df[k + 1].timestamp, df[k].timestamp)
                    /\ UNCHANGED <<db, tx>>
          /\ (pc[s] = "my_transactions_read" /\ pc'[s] # pc[s]) =>
                UNCHANGED <<db, tx>>]_vars

\* a session reads its listing of two entries whose timestamps run against
\* their log_id order, while the trail also holds an entry of the other
\* account
C16_Witness ==
    \E s \in Sessions :
        /\ pc[s] = "my_transactions_read"
        /\ Len(loc[s].df) = 2
        /\ loc[s].df[1].timestamp # loc[s].df[2].timestamp
        /\ loc[s].df[1].operation = "Initial Registration"
        /\ \E e \in entries(transaction_logs) : e.username # username[s]

-----------------------------------------------------------------------------
(* C17 *)

\* C17: whatever step is taken, (1) a session in the middle of a product
\* registration, a stock update, a report or a transaction listing is
\* logged in; (2) a session is logged in exactly when its username is not
\* None, and the username is then an account of the users table; (3)
\* logged_in becomes true only by a login from the login page, which sets
\* username and goes to home; (4) when logged_in becomes false, username is
\* None and page is login; (5) an entry appended inside a transaction
\* carries the username of the logged-in session that holds the
\* transaction, and no entry of the trail has username None.
C17_LoginGating ==
    [][/\ \A s \in Sessions :
             /\ pc'[s] # "idle" => logged_in'[s]
             /\ logged_in'[s] <=> username'[s] # None
             /\ logged_in'[s] => username'[s] \in DOMAIN users'
             /\ (~logged_in[s] /\ logged_in'[s]) =>
                    /\ page[s] = "login" /\ page'[s] = "home"
                    /\ username'[s] \in DOMAIN users
             /\ (logged_in[s] /\ ~logged_in'[s]) =>
                    /\ username'[s] = None /\ page'[s] = "login"
             /\ ~logged_in'[s] => page'[s] \in {"login", "register_user"}
       /\ Len(tx_logs') = Len(tx_logs) + 1 =>
             /\ writer' \in Sessions
             /\ logged_in[writer']
             /\ tx_logs'[Len(tx_logs')].username = username[writer']
       /\ \A e \in entries(transaction_logs') \cup entries(tx_logs') :
             e.username # None /\ e.username \in DOMAIN users']_vars

\* the trail holds entries of both accounts, one session has logged out
\* after writing, and the other is reading the report
C17_Witness ==
    /\ \E e1, e2 \in entries(transaction_logs) : e1.username # e2.username
    /\ \E s \in Sessions :
          /\ ~logged_in[s] /\ username[s] = None /\ page[s] = "login"
          /\ \E other \in Sessions \ {s} :
                pc[other] = "reports_read" /\ logged_in[other]

====
